---- MODULE Spec2Model ----
(***************************************************************************)
(* Model of the xbps run-dependency resolver (lib/repository_finddeps.c)   *)
(* and of the xbps-remove front-end (bin/xbps-remove/main.c).              *)
(*                                                                         *)
(* Four specifications share the module:                                   *)
(*   Spec         the resolver: xbps_repository_find_pkg_deps and the      *)
(*                recursion of find_repo_deps, one step per loop iteration *)
(*   SpecMissing  arbitrary sequences of add_missing_reqdep calls          *)
(*   SpecMain     main() of xbps-remove                                    *)
(*   SpecCallback state_cb_rm, the state callback of xbps-remove           *)
(***************************************************************************)
EXTENDS Integers, Sequences, FiniteSets, TLC

VARIABLES
    \* ---- resolver (repository_finddeps.c)
    pkgdb,          \* installed package records (PkgDB)
    pool,           \* repository pool: sequence of repositories, in priority order
    unsorted_deps,  \* transd["unsorted_deps"]: sequence of queued entries
    missing_deps,   \* transd["missing_deps"]: sequence of patterns
    stack,          \* active find_repo_deps calls, innermost last
    depth,          \* the size_t the callers share through *depth
    rv,             \* the value the last completed call returned
    pc,             \* "off", "ready", "running", "done"
    root,           \* the repo_pkgd handed to xbps_repository_find_pkg_deps
    last,           \* what the last resolver step did (ghost, for the properties)
    \* ---- add_missing_reqdep driven alone
    recorded,       \* the patterns passed to add_missing_reqdep so far (ghost)
    \* ---- xbps-remove main()
    m               \* the front-end's locals, position and call log

rvars == <<pkgdb, pool, unsorted_deps, missing_deps, stack, depth, rv, pc, root, last>>
vars == <<pkgdb, pool, unsorted_deps, missing_deps, stack, depth, rv, pc, root,
          last, recorded, m>>

(***************************************************************************)
(* errno values and program constants                                      *)
(***************************************************************************)
ENOENT == 2
EEXIST == 17
EINVAL == 22
ELOOP == 40
ENOTEMPTY == 39
EXIT_SUCCESS == 0
EXIT_FAILURE == 1
MAX_DEPTH == 512

(***************************************************************************)
(* Bounds of the model                                                     *)
(***************************************************************************)
MaxRdeps == 2      \* length of the root package's run_depends
MaxCalls == 3      \* add_missing_reqdep calls in SpecMissing
MaxArgs == 2       \* package names on the xbps-remove command line
MaxEvents == 2     \* state events delivered to state_cb_rm

(***************************************************************************)
(* Names, versions, patterns.  Package names are positive integers; 0 is   *)
(* the NULL of xbps_pkgpattern_name.                                       *)
(***************************************************************************)
NoName == 0
Names == 1..2                       \* real packages of the small universes
VirtName == Cardinality(Names) + 1  \* a name only ever provided
Versions == 1..2                    \* versions the repositories carry
PatVersions == 1..3                 \* versions a pattern may require
NoVersion == [op |-> "any", ver |-> 0]
Pat(n, o, v) == [name |-> n, op |-> o, ver |-> v]
NoRdeps == <<Pat(NoName, "none", 0)>>   \* a dictionary without "run_depends"

\* xbps_pkgpattern_name: the name part, NoName when it cannot be extracted
xbps_pkgpattern_name(p) == p.name

\* xbps_pkgpattern_version: the operator and version part, NoVersion when
\* the pattern has none
xbps_pkgpattern_version(p) ==
    IF p.op = "any" THEN NoVersion ELSE [op |-> p.op, ver |-> p.ver]

\* xbps_cmpver: -1, 0, 1
xbps_cmpver(va, vb) ==
    IF va.ver < vb.ver THEN -1 ELSE IF va.ver > vb.ver THEN 1 ELSE 0

\* xbps_pkgpattern_match(pkgver, pattern): 1 match, 0 no match, -1 malformed
xbps_pkgpattern_match(n, v, p) ==
    IF p.name = NoName \/ p.op = "bad" THEN -1
    ELSE IF p.name # n THEN 0
    ELSE IF p.op = "any" THEN 1
    ELSE IF p.op = ">=" THEN (IF v >= p.ver THEN 1 ELSE 0)
    ELSE IF p.op = ">" THEN (IF v > p.ver THEN 1 ELSE 0)
    ELSE IF p.op = "<" THEN (IF v < p.ver THEN 1 ELSE 0)
    ELSE IF p.op = "<=" THEN (IF v <= p.ver THEN 1 ELSE 0)
    ELSE IF p.op = "=" THEN (IF v = p.ver THEN 1 ELSE 0)
    ELSE -1

Malformed(p) == p.name = NoName \/ p.op = "bad"

(***************************************************************************)
(* add_missing_reqdep (repository_finddeps.c:86-169)                       *)
(***************************************************************************)
\* The while loop of lines 109-156 from position idx on.  The result holds
\* the flags and idx as they stand at the label out.
RECURSIVE MissingLoop(_, _, _)
MissingLoop(mdeps, reqpkg, idx) ==
    IF idx > Len(mdeps)
    THEN [add_pkgdep |-> TRUE, update_pkgdep |-> FALSE, idx |-> idx, rv |-> 0]
    ELSE LET curdep == mdeps[idx]
             curver == xbps_pkgpattern_version(curdep)
             pkgver == xbps_pkgpattern_version(reqpkg)
             out == [add_pkgdep |-> FALSE, update_pkgdep |-> FALSE,
                     idx |-> idx, rv |-> 0]
         IN IF curver = NoVersion \/ pkgver = NoVersion THEN out
            ELSE IF xbps_pkgpattern_name(curdep) = NoName THEN out
            ELSE IF xbps_pkgpattern_name(reqpkg) = NoName THEN out
            ELSE IF xbps_pkgpattern_name(reqpkg) = xbps_pkgpattern_name(curdep)
            THEN IF curver = pkgver
                 THEN [out EXCEPT !.rv = EEXIST]
                 ELSE IF xbps_cmpver(curver, pkgver) <= 0
                 THEN [out EXCEPT !.rv = EEXIST]
                 ELSE [add_pkgdep |-> TRUE, update_pkgdep |-> TRUE,
                       idx |-> idx, rv |-> 0]
            ELSE MissingLoop(mdeps, reqpkg, idx + 1)

RemoveAt(s, i) == [k \in 1..(Len(s) - 1) |-> IF k < i THEN s[k] ELSE s[k + 1]]

\* (mutant) the replaced pattern is not removed (line 162 missing)
add_missing_reqdep_keep(mdeps, reqpkg) ==
    LET r == MissingLoop(mdeps, reqpkg, 1)
    IN [list |-> IF r.add_pkgdep THEN Append(mdeps, reqpkg) ELSE mdeps,
        rv |-> r.rv]

\* The whole function: [list |-> the array afterwards, rv |-> its result]
add_missing_reqdep(mdeps, reqpkg) ==
    LET r == MissingLoop(mdeps, reqpkg, 1)
        removed == IF r.update_pkgdep THEN RemoveAt(mdeps, r.idx) ELSE mdeps
    IN [list |-> IF r.add_pkgdep THEN Append(removed, reqpkg) ELSE removed,
        rv |-> r.rv]

(***************************************************************************)
(* Repository indices.  The pool names its repositories; Index gives the   *)
(* package dictionaries a repository holds.                                *)
(*   Repo(r)       carries version r of every name of Names                *)
(*   ChainRepo(n)  carries packages 1..n, package k requiring package k+1  *)
(*                 and package n having no run_depends: resolving a root   *)
(*                 that requires package 1 needs n nested levels           *)
(***************************************************************************)
Repo(r) == [chain |-> 0, ver |-> r]
ChainRepo(n) == [chain |-> n, ver |-> 1]

\* "provides": the last name of Names provides the virtual package at its
\* own version
Provides(repo, n, v) ==
    IF repo.chain = 0 /\ n = Cardinality(Names)
    THEN {[name |-> VirtName, ver |-> v]} ELSE {}

\* "run_depends" of the small repositories: version 1 packages have none,
\* later versions of the first name require the next name and the virtual
\* package, those of the other names require their predecessor and hold a
\* pattern without a name
RunDepends(n, v) ==
    IF v = 1 THEN NoRdeps
    ELSE IF n = 1 THEN <<Pat(n + 1, ">=", v - 1), Pat(VirtName, "any", 0)>>
    ELSE <<Pat(n - 1, ">=", v), Pat(NoName, ">=", v)>>

RepoRdeps(repo, n, v) ==
    IF repo.chain = 0 THEN RunDepends(n, v)
    ELSE IF n < repo.chain THEN <<Pat(n + 1, "any", 0)>> ELSE NoRdeps

PkgDict(repo, n, v) ==
    [name |-> n, ver |-> v, repo |-> repo, rdeps |-> RepoRdeps(repo, n, v),
     provides |-> Provides(repo, n, v)]

Index(repo) ==
    IF repo.chain = 0 THEN {PkgDict(repo, n, repo.ver) : n \in Names}
    ELSE {PkgDict(repo, n, 1) : n \in 1..repo.chain}

\* The dictionaries of a repository that have name n (Index filtered)
IndexByName(repo, n) ==
    IF repo.chain = 0
    THEN IF n \in Names THEN {PkgDict(repo, n, repo.ver)} ELSE {}
    ELSE IF n \in 1..repo.chain THEN {PkgDict(repo, n, 1)} ELSE {}

\* The dictionaries of a repository that provide something (Index filtered)
IndexProviders(repo) ==
    IF repo.chain = 0 THEN {r \in Index(repo) : r.provides # {}} ELSE {}

(***************************************************************************)
(* PkgDB, RepoPool and array lookups used by find_repo_deps                *)
(***************************************************************************)
NoPkg == [name |-> NoName]
DbStates == {"unpacked", "installed", "half-removed"}

\* xbps_match_virtual_pkg_in_dict(d, pattern, true): d provides a virtual
\* package matching the pattern
xbps_match_virtual_pkg_in_dict(d, p) ==
    \E v \in d.provides : xbps_pkgpattern_match(v.name, v.ver, p) = 1

\* The record of least (name, ver) among a non-empty set of records
Least(S) ==
    CHOOSE r \in S : \A q \in S :
        r.name < q.name \/ (r.name = q.name /\ r.ver <= q.ver)

\* xbps_find_pkg_dict_installed(name, false)
xbps_find_pkg_dict_installed(n) ==
    LET S == {r \in pkgdb : r.name = n}
    IN IF S = {} THEN NoPkg ELSE Least(S)

\* xbps_find_virtualpkg_dict_installed(name, false): an installed record
\* providing a virtual package of that name
xbps_find_virtualpkg_dict_installed(n) ==
    LET S == {r \in pkgdb : \E v \in r.provides : v.name = n}
    IN IF S = {} THEN NoPkg ELSE Least(S)

\* A queued entry keeps the keys the resolver sets and names its dictionary
\* by repository, name and version; Dict gives the dictionary's other keys
Dict(e) == PkgDict(e.repo, e.name, e.ver)

\* The first of a set of indices of an array or of the pool, 0 when empty
FirstIndex(I) ==
    IF I = {} THEN 0 ELSE CHOOSE i \in I : \A j \in I : i <= j

\* xbps_find_virtualpkg_conf_in_dict_by_pattern(transd, "unsorted_deps", p)
FindVirtualQueued(queue, p) ==
    LET Hit(e) == xbps_match_virtual_pkg_in_dict(
                      [provides |-> Provides(e.repo, e.name, e.ver)], p)
        i == FirstIndex({k \in DOMAIN queue : Hit(queue[k])})
    IN IF i = 0 THEN NoPkg ELSE queue[i]

\* xbps_find_pkg_in_dict_by_pattern(transd, "unsorted_deps", p)
FindPkgQueued(queue, p) ==
    LET Hit(e) == xbps_pkgpattern_match(e.name, e.ver, p) = 1
        i == FirstIndex({k \in DOMAIN queue : Hit(queue[k])})
    IN IF i = 0 THEN NoPkg ELSE queue[i]

\* xbps_repository_pool_find_virtualpkg(p, true): the first repository
\* holding a provider of p answers
xbps_repository_pool_find_virtualpkg(p) ==
    LET Hits(repo) == {r \in IndexProviders(repo) :
                          xbps_match_virtual_pkg_in_dict(r, p)}
        Hit(repo) == Hits(repo) # {}
        i == FirstIndex({k \in DOMAIN pool : Hit(pool[k])})
    IN IF i = 0 THEN NoPkg ELSE Least(Hits(pool[i]))

\* xbps_repository_pool_find_pkg(p, true, false): first hit, not best version
xbps_repository_pool_find_pkg(p) ==
    LET Hits(repo) == {r \in IndexByName(repo, p.name) :
                          xbps_pkgpattern_match(r.name, r.ver, p) = 1}
        Hit(repo) == Hits(repo) # {}
        i == FirstIndex({k \in DOMAIN pool : Hit(pool[k])})
    IN IF i = 0 THEN NoPkg ELSE Least(Hits(pool[i]))

(***************************************************************************)
(* find_repo_deps (repository_finddeps.c:173-472)                          *)
(***************************************************************************)
\* What one iteration of the while loop (lines 206-467) does with pattern
\* reqpkg, before the recursive call if any.  kind:
\*   "abort"      break with rv           (lines 225-229, 320-325, 351-353)
\*   "satisfied"  continue after pass 1   (lines 280-290, 309-318)
\*   "queued"     continue after pass 2   (lines 343-348)
\*   "missing"    continue after pass 3   (lines 375-391)
\*   "store"      pass 4 and store_dependency (lines 398-438)
\* reason and state are the locals of lines 185-187 as the iteration leaves
\* them; reason is "NULL" until a branch assigns it.
Outcome(k, how, r, reason, state, mdeps, cand) ==
    [kind |-> k, how |-> how, rv |-> r, reason |-> reason, state |-> state,
     missing |-> mdeps, cand |-> cand]

\* Pass 4 (lines 398-428): the action tag for the pool candidate cand
Pass4(reqpkg, reason, state, cand) ==
    LET byname == xbps_find_pkg_dict_installed(cand.name)
        tmpd == IF byname # NoPkg THEN byname
                ELSE xbps_find_virtualpkg_dict_installed(cand.name)
        reason4 == IF tmpd = NoPkg THEN "install"
                   ELSE IF tmpd.state = "installed" THEN "update"
                   ELSE IF tmpd.state = "unpacked" THEN "install"
                   ELSE reason
        state4 == IF tmpd = NoPkg THEN state ELSE tmpd.state
    IN Outcome("store", "pool", 0, reason4, state4, missing_deps, cand)

\* Pass 3 (lines 361-393): the pool, else add_missing_reqdep
Pass3(reqpkg, reason, state) ==
    LET virt == xbps_repository_pool_find_virtualpkg(reqpkg)
        curpkgd == IF virt # NoPkg THEN virt
                   ELSE xbps_repository_pool_find_pkg(reqpkg)
    IN IF curpkgd = NoPkg
       THEN LET am == add_missing_reqdep(missing_deps, reqpkg)
            IN Outcome("missing", IF am.rv = EEXIST THEN "already" ELSE "added",
                       0, reason, state, am.list, NoPkg)
       ELSE Pass4(reqpkg, reason, state, curpkgd)

\* Pass 2 (lines 333-355): the array of unsorted dependencies
Pass2(reqpkg, reason, state) ==
    IF Malformed(reqpkg)
    THEN Outcome("abort", "lookup", EINVAL, reason, state, missing_deps, NoPkg)
    ELSE LET virt == FindVirtualQueued(unsorted_deps, reqpkg)
             curpkgd == IF virt # NoPkg THEN virt
                        ELSE FindPkgQueued(unsorted_deps, reqpkg)
         IN IF curpkgd # NoPkg
            THEN Outcome("queued", "queued", 0, reason, state, missing_deps, curpkgd)
            ELSE Pass3(reqpkg, reason, state)

\* (mutant) pass 1 without the virtual-package test of lines 280-290
Pass1NoVirtual(reqpkg, reason) ==
    LET pkgname == xbps_pkgpattern_name(reqpkg)
        byname == xbps_find_pkg_dict_installed(pkgname)
        tmpd == IF byname # NoPkg THEN byname
                ELSE xbps_find_virtualpkg_dict_installed(pkgname)
        mr == xbps_pkgpattern_match(tmpd.name, tmpd.ver, reqpkg)
    IN IF pkgname = NoName
       THEN Outcome("abort", "name", EINVAL, reason, "unset", missing_deps, NoPkg)
       ELSE IF tmpd = NoPkg
       THEN Pass2(reqpkg, "install", "not-installed")
       ELSE IF mr = 0
       THEN Pass2(reqpkg, reason, tmpd.state)
       ELSE IF mr = 1
       THEN IF tmpd.state = "unpacked"
            THEN Pass2(reqpkg, "configure", tmpd.state)
            ELSE Outcome("satisfied", "installed", 0, reason, tmpd.state,
                         missing_deps, tmpd)
       ELSE Outcome("abort", "match", mr, reason, tmpd.state, missing_deps, NoPkg)

\* Pass 1 (lines 224-327): the installed packages
Pass1(reqpkg, reason) ==
    LET pkgname == xbps_pkgpattern_name(reqpkg)
        byname == xbps_find_pkg_dict_installed(pkgname)
        tmpd == IF byname # NoPkg THEN byname
                ELSE xbps_find_virtualpkg_dict_installed(pkgname)
        mr == xbps_pkgpattern_match(tmpd.name, tmpd.ver, reqpkg)
    IN IF pkgname = NoName
       THEN Outcome("abort", "name", EINVAL, reason, "unset", missing_deps, NoPkg)
       ELSE IF tmpd = NoPkg
       THEN Pass2(reqpkg, "install", "not-installed")
       ELSE IF xbps_match_virtual_pkg_in_dict(tmpd, reqpkg)
       THEN Outcome("satisfied", "virtual", 0, reason, tmpd.state, missing_deps, tmpd)
       ELSE IF mr = 0
       THEN Pass2(reqpkg, reason, tmpd.state)
       ELSE IF mr = 1
       THEN IF tmpd.state = "unpacked"
            THEN Pass2(reqpkg, "configure", tmpd.state)
            ELSE Outcome("satisfied", "installed", 0, reason, tmpd.state,
                         missing_deps, tmpd)
       ELSE Outcome("abort", "match", mr, reason, tmpd.state, missing_deps, NoPkg)

\* (mutant) the candidate takes the place of a queued entry of its name
store_dependency_supersede(queue, cand, reason, state) ==
    LET new == [name |-> cand.name, ver |-> cand.ver, repo |-> cand.repo,
                transaction |-> reason, state |-> state, automatic |-> TRUE]
    IN IF \E i \in DOMAIN queue : queue[i].name = cand.name
       THEN [i \in DOMAIN queue |->
                IF queue[i].name = cand.name THEN new ELSE queue[i]]
       ELSE Append(queue, new)

\* store_dependency (lines 33-84): the candidate as it is appended, with the
\* state of line 57, the flag of line 62 and the tag of line 428
store_dependency(queue, cand, reason, state) ==
    Append(queue, [name |-> cand.name, ver |-> cand.ver, repo |-> cand.repo,
                   transaction |-> reason, state |-> state, automatic |-> TRUE])

Frame(rdeps) == [rdeps |-> rdeps, i |-> 1, reason |-> "NULL", pc |-> "entry", rv |-> 0]

Top == stack[Len(stack)]
Level == Len(stack) - 1
InLoop == pc = "running" /\ stack # <<>> /\ Top.pc = "loop" /\ Top.i <= Len(Top.rdeps)
Reqpkg == Top.rdeps[Top.i]
Step == Pass1(Reqpkg, Top.reason)
Did(o) == [kind |-> o.kind, how |-> o.how, pat |-> Reqpkg, level |-> Level,
           depth |-> depth, reason |-> o.reason]

\* xbps_repository_find_pkg_deps (lines 474-504): no run_depends array, return 0
FindPkgDepsNone ==
    /\ pc = "ready" /\ root.rdeps = NoRdeps
    /\ pc' = "done" /\ rv' = 0
    /\ last' = [kind |-> "none"]
    /\ UNCHANGED <<pkgdb, pool, unsorted_deps, missing_deps, stack, depth, root,
                   recorded, m>>

\* xbps_repository_find_pkg_deps: the call of line 497 with depth = 0
FindPkgDeps ==
    /\ pc = "ready" /\ root.rdeps # NoRdeps
    /\ pc' = "running" /\ depth' = 0
    /\ stack' = <<Frame(root.rdeps)>>
    /\ last' = [kind |-> "call"]
    /\ UNCHANGED <<pkgdb, pool, unsorted_deps, missing_deps, rv, root, recorded, m>>

\* (mutant) the caller does not test the callee's result (lines 462-466
\* missing)
DeliverIgnored(r) ==
    IF Len(stack) = 1
    THEN /\ stack' = <<>> /\ pc' = "done" /\ rv' = r
    ELSE /\ stack' = [SubSeq(stack, 1, Len(stack) - 1) EXCEPT
                        ![Len(stack) - 1].rv = r]
         /\ pc' = pc /\ rv' = r

\* The callee's frame leaves the stack and its caller sees r at line 460-466
\* (or xbps_repository_find_pkg_deps at line 497 when it was the root call)
Deliver(r) ==
    IF Len(stack) = 1
    THEN /\ stack' = <<>> /\ pc' = "done" /\ rv' = r
    ELSE /\ stack' = [SubSeq(stack, 1, Len(stack) - 1) EXCEPT
                        ![Len(stack) - 1].pc = IF r # 0 THEN "end" ELSE @,
                        ![Len(stack) - 1].rv = r]
         /\ pc' = pc /\ rv' = r

\* (mutant) the depth test off by one
DepthExceededOffByOne(d) == d > MAX_DEPTH

\* Line 195: if (*depth >= MAX_DEPTH)
DepthExceeded(d) == d >= MAX_DEPTH

\* Lines 195-196: a call entered at *depth >= MAX_DEPTH returns ELOOP at once
EnterLoop ==
    /\ pc = "running" /\ Top.pc = "entry"
    /\ DepthExceeded(depth)
    /\ Deliver(ELOOP)
    /\ last' = [kind |-> "eloop", depth |-> depth, level |-> Level]
    /\ UNCHANGED <<pkgdb, pool, unsorted_deps, missing_deps, depth, root, recorded, m>>

\* Lines 195-200: the iterator is made, the loop starts
Enter ==
    /\ pc = "running" /\ Top.pc = "entry"
    /\ ~DepthExceeded(depth)
    /\ stack' = [stack EXCEPT ![Len(stack)].pc = "loop"]
    /\ last' = [kind |-> "enter", depth |-> depth, level |-> Level]
    /\ UNCHANGED <<pkgdb, pool, unsorted_deps, missing_deps, depth, rv, pc, root,
                   recorded, m>>

\* An iteration that ends in break: rv is set, the loop is left
IterAbort ==
    /\ InLoop
    /\ LET o == Step
       IN /\ o.kind = "abort"
          /\ stack' = [stack EXCEPT ![Len(stack)].pc = "end",
                                    ![Len(stack)].rv = o.rv,
                                    ![Len(stack)].reason = o.reason]
          /\ last' = Did(o)
    /\ UNCHANGED <<pkgdb, pool, unsorted_deps, missing_deps, depth, rv, pc, root,
                   recorded, m>>

\* An iteration that ends in continue without queuing: satisfied by an
\* installed package, already queued, or recorded as missing
IterContinue ==
    /\ InLoop
    /\ LET o == Step
       IN /\ o.kind \in {"satisfied", "queued", "missing"}
          /\ stack' = [stack EXCEPT ![Len(stack)].i = @ + 1,
                                    ![Len(stack)].reason = o.reason]
          /\ missing_deps' = o.missing
          /\ last' = Did(o)
    /\ UNCHANGED <<pkgdb, pool, unsorted_deps, depth, rv, pc, root, recorded, m>>

\* An iteration that stores the candidate, which has no run_depends
\* (lines 428-446)
IterStore ==
    /\ InLoop
    /\ LET o == Step
       IN /\ o.kind = "store" /\ o.cand.rdeps = NoRdeps
          /\ unsorted_deps' = store_dependency(unsorted_deps, o.cand, o.reason,
                                               o.state)
          /\ stack' = [stack EXCEPT ![Len(stack)].i = @ + 1,
                                    ![Len(stack)].reason = o.reason]
          /\ last' = Did(o)
    /\ UNCHANGED <<pkgdb, pool, missing_deps, depth, rv, pc, root, recorded, m>>

\* An iteration that stores the candidate and calls find_repo_deps on its
\* run_depends with (*depth)++ (lines 428-461)
IterRecurse ==
    /\ InLoop
    /\ LET o == Step
       IN /\ o.kind = "store" /\ o.cand.rdeps # NoRdeps
          /\ unsorted_deps' = store_dependency(unsorted_deps, o.cand, o.reason,
                                               o.state)
          /\ depth' = depth + 1
          /\ stack' = Append([stack EXCEPT ![Len(stack)].i = @ + 1,
                                           ![Len(stack)].reason = o.reason],
                             Frame(o.cand.rdeps))
          /\ last' = Did(o)
    /\ UNCHANGED <<pkgdb, pool, missing_deps, rv, pc, root, recorded, m>>

\* Lines 468-471: the loop is over, (*depth)-- and return rv.  depth is a
\* size_t: below 0 it wraps, written -1 here; the root's caller drops it.
Return ==
    /\ pc = "running" /\ stack # <<>>
    /\ \/ Top.pc = "end"
       \/ Top.pc = "loop" /\ Top.i > Len(Top.rdeps)
    /\ depth' = depth - 1
    /\ Deliver(IF Top.pc = "end" THEN Top.rv ELSE 0)
    /\ last' = [kind |-> "return", level |-> Level,
                rv |-> IF Top.pc = "end" THEN Top.rv ELSE 0]
    /\ UNCHANGED <<pkgdb, pool, unsorted_deps, missing_deps, root, recorded, m>>

(***************************************************************************)
(* The universes the resolver is run in                                    *)
(***************************************************************************)
\* Any sequence of distinct small repositories
Pools ==
    {<<>>} \cup {<<Repo(r)>> : r \in Versions}
           \cup {<<Repo(r), Repo(q)>> : <<r, q>> \in {x \in Versions \X Versions : x[1] # x[2]}}

\* The installed records: the packages of the small repositories in any
\* state, and the last name of Names installed as provider of the first
\* name (a package that took the place of another)
InstalledRecs ==
    {[name |-> n, ver |-> v, state |-> st, provides |-> Provides(Repo(v), n, v)] :
        n \in Names, v \in Versions, st \in DbStates}
    \cup
    {[name |-> Cardinality(Names), ver |-> v, state |-> st,
      provides |-> {[name |-> 1, ver |-> v]}] :
        v \in Versions, st \in DbStates}

\* At most one record per name
PkgDBs == {{}} \cup {{r} : r \in InstalledRecs}

DepPatterns ==
    {Pat(n, "any", 0) : n \in Names \cup {VirtName}}
    \cup {Pat(n, ">=", v) : n \in Names \cup {VirtName}, v \in Versions}
    \cup {Pat(NoName, ">=", 1), Pat(1, "bad", 1)}

SeqsUpTo(S, n) == UNION {[1..k -> S] : k \in 1..n}

Idle == [pc |-> "off"]

InitSmall ==
    /\ pkgdb \in PkgDBs
    /\ pool \in Pools
    /\ root \in {[rdeps |-> r, chain |-> 0] : r \in {NoRdeps} \cup SeqsUpTo(DepPatterns, MaxRdeps)}

InitChain ==
    /\ pkgdb = {}
    /\ \E n \in {MAX_DEPTH, MAX_DEPTH + 1} :
          /\ pool = <<ChainRepo(n)>>
          /\ root = [rdeps |-> <<Pat(1, "any", 0)>>, chain |-> n]

Init ==
    /\ InitSmall \/ InitChain
    /\ unsorted_deps = <<>> /\ missing_deps = <<>>
    /\ stack = <<>> /\ depth = 0 /\ rv = 0
    /\ pc = "ready"
    /\ last = [kind |-> "none"]
    /\ recorded = <<>>
    /\ m = Idle

Next ==
    \/ FindPkgDepsNone
    \/ FindPkgDeps
    \/ EnterLoop
    \/ Enter
    \/ IterAbort
    \/ IterContinue
    \/ IterStore
    \/ IterRecurse
    \/ Return

Spec == Init /\ [][Next]_vars

(***************************************************************************)
(* add_missing_reqdep called with any sequence of patterns                 *)
(***************************************************************************)
MissingPatterns ==
    {Pat(n, "any", 0) : n \in Names}
    \cup {Pat(n, o, v) : n \in Names, o \in {">=", ">"}, v \in PatVersions}
    \cup {Pat(NoName, ">=", 1)}

InitMissing ==
    /\ pkgdb = {} /\ pool = <<>> /\ root = [rdeps |-> NoRdeps, chain |-> 0]
    /\ unsorted_deps = <<>> /\ missing_deps = <<>>
    /\ stack = <<>> /\ depth = 0 /\ rv = 0
    /\ pc = "off"
    /\ last = [kind |-> "none"]
    /\ recorded = <<>>
    /\ m = Idle

RecordMissing ==
    /\ pc = "off" /\ Len(recorded) < MaxCalls
    /\ \E p \in MissingPatterns :
          LET am == add_missing_reqdep(missing_deps, p)
          IN /\ missing_deps' = am.list
             /\ rv' = am.rv
             /\ recorded' = Append(recorded, p)
    /\ UNCHANGED <<pkgdb, pool, unsorted_deps, stack, depth, pc, root, last, m>>

NextMissing == RecordMissing

SpecMissing == InitMissing /\ [][NextMissing]_vars

(***************************************************************************)
(* xbps-remove: main (main.c:156-309) and remove_pkg (main.c:122-154)      *)
(*                                                                         *)
(* m.args[i] is what xbps_transaction_remove_pkg answers for the i-th      *)
(* package name; the other library calls answer at the step that makes     *)
(* them.  m.calls logs the library calls in order, m.exit is the exit      *)
(* code (-1 while running).                                                *)
(***************************************************************************)
RemoveAnswers == {0, ENOENT, EEXIST, EINVAL}

Call(op, arg) == [op |-> op, arg |-> arg]

InitMain ==
    /\ pkgdb = {} /\ pool = <<>> /\ root = [rdeps |-> NoRdeps, chain |-> 0]
    /\ unsorted_deps = <<>> /\ missing_deps = <<>>
    /\ stack = <<>> /\ depth = 0 /\ rv = 0
    /\ pc = "off"
    /\ last = [kind |-> "none"]
    /\ recorded = <<>>
    /\ \E drun, ignore_revdeps, clean_cache, orphans \in BOOLEAN :
       \E args \in {<<>>} \cup SeqsUpTo(RemoveAnswers, MaxArgs) :
          m = [pc |-> "start", drun |-> drun, ignore_revdeps |-> ignore_revdeps,
               clean_cache |-> clean_cache, orphans |-> orphans, args |-> args,
               i |-> 1, rv |-> 0, reqby_force |-> FALSE, locked |-> FALSE,
               calls |-> <<>>, exit |-> -1]

Exit(code, calls) ==
    m' = [m EXCEPT !.pc = "exited", !.exit = code, !.calls = calls]

NotMain == UNCHANGED <<pkgdb, pool, unsorted_deps, missing_deps, stack, depth, rv,
                       pc, root, last, recorded>>

\* Lines 239-240: nothing to do, usage(true)
Usage ==
    /\ m.pc = "start"
    /\ IF ~m.clean_cache /\ ~m.orphans /\ m.args = <<>>
       THEN Exit(EXIT_FAILURE, m.calls)
       ELSE m' = [m EXCEPT !.pc = "init"]
    /\ NotMain

\* Lines 254-258: xbps_init
XbpsInit ==
    /\ m.pc = "init"
    /\ \E r \in {0, EINVAL} :
          IF r # 0 THEN Exit(EXIT_FAILURE, Append(m.calls, Call("init", r)))
          ELSE m' = [m EXCEPT !.pc = "clean", !.rv = r,
                              !.calls = Append(@, Call("init", r))]
    /\ NotMain

\* Lines 262-266: clean_cachedir
CleanCache ==
    /\ m.pc = "clean"
    /\ IF m.clean_cache
       THEN \E r \in {0, EINVAL} :
               IF r # 0 THEN Exit(r, Append(m.calls, Call("clean", r)))
               ELSE m' = [m EXCEPT !.pc = "lock", !.rv = r,
                                   !.calls = Append(@, Call("clean", r))]
       ELSE m' = [m EXCEPT !.pc = "lock"]
    /\ NotMain

\* (mutant) the lock is taken in dry-run too
LockAlways ==
    /\ m.pc = "lock"
    /\ \E r \in {0, EINVAL} :
          IF r # 0 THEN Exit(r, Append(m.calls, Call("lock", r)))
          ELSE m' = [m EXCEPT !.pc = "orphans", !.rv = r, !.locked = TRUE,
                              !.calls = Append(@, Call("lock", r))]
    /\ NotMain

\* Lines 268-271: xbps_pkgdb_lock unless dry-run
Lock ==
    /\ m.pc = "lock"
    /\ IF ~m.drun
       THEN \E r \in {0, EINVAL} :
               IF r # 0 THEN Exit(r, Append(m.calls, Call("lock", r)))
               ELSE m' = [m EXCEPT !.pc = "orphans", !.rv = r, !.locked = TRUE,
                                   !.calls = Append(@, Call("lock", r))]
       ELSE m' = [m EXCEPT !.pc = "orphans"]
    /\ NotMain

\* Lines 273-283: xbps_transaction_autoremove_pkgs
Orphans ==
    /\ m.pc = "orphans"
    /\ IF m.orphans
       THEN \E r \in {0, ENOENT, EINVAL} :
               LET called == Append(m.calls, Call("autoremove", r))
                   unlocked == Append(called, Call("unlock", 0))
               IN IF r # 0
                  THEN m' = [m EXCEPT !.pc = "exited", !.rv = r, !.locked = FALSE,
                                      !.calls = unlocked,
                                      !.exit = IF r # ENOENT THEN EXIT_FAILURE
                                               ELSE EXIT_SUCCESS]
                  ELSE m' = [m EXCEPT !.pc = "loop", !.rv = r, !.calls = called]
       ELSE m' = [m EXCEPT !.pc = "loop"]
    /\ NotMain

\* (mutant) ENOENT is returned like any other error (lines 144-146 missing)
remove_pkg_enoent(answer) ==
    IF answer = EEXIST THEN answer
    ELSE IF answer # 0 THEN answer
    ELSE 0

\* remove_pkg (lines 122-154): what it returns for the library's answer
remove_pkg(answer) ==
    IF answer = EEXIST THEN answer
    ELSE IF answer = ENOENT THEN 0
    ELSE IF answer # 0 THEN answer
    ELSE 0

\* (mutant) the error exit of the loop leaves without unlocking
RemoveLoopNoUnlock ==
    /\ m.pc = "loop" /\ m.i <= Len(m.args)
    /\ LET r == remove_pkg(m.args[m.i])
           called == Append(m.calls, Call("remove", m.i))
       IN IF r = 0
          THEN m' = [m EXCEPT !.i = @ + 1, !.rv = r, !.calls = called]
          ELSE IF r # EEXIST
          THEN m' = [m EXCEPT !.pc = "exited", !.rv = r, !.exit = r,
                              !.calls = called]
          ELSE m' = [m EXCEPT !.i = @ + 1, !.rv = r, !.reqby_force = TRUE,
                              !.calls = called]
    /\ NotMain

\* Lines 285-297: one iteration of the loop over the package names
RemoveLoop ==
    /\ m.pc = "loop" /\ m.i <= Len(m.args)
    /\ LET r == remove_pkg(m.args[m.i])
           called == Append(m.calls, Call("remove", m.i))
       IN IF r = 0
          THEN m' = [m EXCEPT !.i = @ + 1, !.rv = r, !.calls = called]
          ELSE IF r # EEXIST
          THEN m' = [m EXCEPT !.pc = "exited", !.rv = r, !.exit = r,
                              !.locked = IF m.drun THEN @ ELSE FALSE,
                              !.calls = IF m.drun THEN called
                                        ELSE Append(called, Call("unlock", 0))]
          ELSE m' = [m EXCEPT !.i = @ + 1, !.rv = r, !.reqby_force = TRUE,
                              !.calls = called]
    /\ NotMain

\* Lines 298-301: the exit for removals blocked by reverse dependencies
RevdepsCheck ==
    /\ m.pc = "loop" /\ m.i > Len(m.args)
    /\ IF m.reqby_force /\ ~m.ignore_revdeps /\ ~m.drun
       THEN m' = [m EXCEPT !.pc = "exited", !.exit = EXIT_FAILURE, !.locked = FALSE,
                           !.calls = Append(@, Call("unlock", 0))]
       ELSE m' = [m EXCEPT !.pc = "exec"]
    /\ NotMain

\* Lines 302-308: exec_transaction, unlock unless dry-run, exit(rv)
ExecTransaction ==
    /\ m.pc = "exec"
    /\ \E r \in {0, EINVAL} :
          LET run == m.orphans \/ m.args # <<>>
              code == IF run THEN r ELSE m.rv
              called == IF run THEN Append(m.calls, Call("exec", r)) ELSE m.calls
          IN /\ ~run => r = 0
             /\ m' = [m EXCEPT !.pc = "exited", !.rv = code, !.exit = code,
                               !.locked = IF m.drun THEN @ ELSE FALSE,
                               !.calls = IF m.drun THEN called
                                         ELSE Append(called, Call("unlock", 0))]
    /\ NotMain

NextMain ==
    \/ Usage
    \/ XbpsInit
    \/ CleanCache
    \/ Lock
    \/ Orphans
    \/ RemoveLoop
    \/ RevdepsCheck
    \/ ExecTransaction

SpecMain == InitMain /\ [][NextMain]_vars

(***************************************************************************)
(* xbps-remove: state_cb_rm (main.c:65-120), the callback the library      *)
(* calls with each state event of a removal.  A report is what one call    *)
(* did: whether it printed to stdout, called xbps_error_printf, what it    *)
(* sent to syslog, and the value it returned.                              *)
(***************************************************************************)
FileFailStates ==
    {"REMOVE_FILE_FAIL", "REMOVE_FILE_HASH_FAIL", "REMOVE_FILE_OBSOLETE_FAIL"}

CbStates ==
    {"REMOVE", "REMOVE_FILE", "REMOVE_FILE_OBSOLETE", "REMOVE_DONE",
     "REMOVE_FAIL", "UNKNOWN"} \cup FileFailStates

CbErrs == {0, ENOENT, ENOTEMPTY, EINVAL}

Report(ret, stdout, error, syslog) ==
    [ret |-> ret, stdout |-> stdout, error |-> error, syslog |-> syslog]

\* (mutant) no errno is ignored (lines 104-106 missing)
state_cb_rm_all(state, err, slog, verbose) ==
    IF state = "REMOVE" THEN Report(0, TRUE, FALSE, "none")
    ELSE IF state \in {"REMOVE_FILE", "REMOVE_FILE_OBSOLETE"}
    THEN Report(0, verbose, FALSE, "none")
    ELSE IF state = "REMOVE_DONE"
    THEN Report(0, TRUE, FALSE, IF slog THEN "notice" ELSE "none")
    ELSE IF state = "REMOVE_FAIL"
    THEN Report(0, FALSE, TRUE, IF slog THEN "err" ELSE "none")
    ELSE IF state \in FileFailStates
    THEN Report(0, FALSE, TRUE, IF slog THEN "err" ELSE "none")
    ELSE Report(0, FALSE, FALSE, "none")

\* state_cb_rm: slog is the local of lines 68-73, verbose the flag
\* XBPS_FLAG_VERBOSE
state_cb_rm(state, err, slog, verbose) ==
    IF state = "REMOVE" THEN Report(0, TRUE, FALSE, "none")
    ELSE IF state \in {"REMOVE_FILE", "REMOVE_FILE_OBSOLETE"}
    THEN Report(0, verbose, FALSE, "none")
    ELSE IF state = "REMOVE_DONE"
    THEN Report(0, TRUE, FALSE, IF slog THEN "notice" ELSE "none")
    ELSE IF state = "REMOVE_FAIL"
    THEN Report(0, FALSE, TRUE, IF slog THEN "err" ELSE "none")
    ELSE IF state \in FileFailStates
    THEN IF err = ENOTEMPTY THEN Report(0, FALSE, FALSE, "none")
         ELSE Report(0, FALSE, TRUE, IF slog THEN "err" ELSE "none")
    ELSE Report(0, FALSE, FALSE, "none")

InitCallback ==
    /\ pkgdb = {} /\ pool = <<>> /\ root = [rdeps |-> NoRdeps, chain |-> 0]
    /\ unsorted_deps = <<>> /\ missing_deps = <<>>
    /\ stack = <<>> /\ depth = 0 /\ rv = 0
    /\ pc = "off"
    /\ last = [kind |-> "none"]
    /\ recorded = <<>>
    /\ \E disable_syslog, verbose \in BOOLEAN :
          m = [pc |-> "callback", disable_syslog |-> disable_syslog,
               verbose |-> verbose, events |-> <<>>]

\* The library delivers one state event; the callback handles it
StateCb ==
    /\ m.pc = "callback" /\ Len(m.events) < MaxEvents
    /\ \E state \in CbStates, err \in CbErrs :
          m' = [m EXCEPT !.events =
                   Append(@, [state |-> state, err |-> err,
                              did |-> state_cb_rm(state, err, ~m.disable_syslog,
                                                  m.verbose)])]
    /\ NotMain

NextCallback == StateCb

SpecCallback == InitCallback /\ [][NextCallback]_vars

(***************************************************************************)
(* Properties                                                              *)
(***************************************************************************)
Max(S) == CHOOSE x \in S : \A y \in S : y <= x
IterKinds == {"abort", "satisfied", "queued", "missing", "store"}

\* ---- C1 (SpecMissing).  The strictest pattern per name is kept: after any
\* calls that all pass well-formed ">=" patterns, missing_deps holds for each
\* name passed exactly one pattern, the one of the greatest version passed
\* (so foo>=1, foo>=3, foo>=2 leaves exactly foo>=3).
C1_StrictestKept ==
    (\A i \in DOMAIN recorded : recorded[i].op = ">=" /\ recorded[i].name # NoName)
    => \A n \in {recorded[i].name : i \in DOMAIN recorded} :
          LET passed == {recorded[i].ver : i \in {j \in DOMAIN recorded :
                                                   recorded[j].name = n}}
              kept == {i \in DOMAIN missing_deps : missing_deps[i].name = n}
          IN /\ Cardinality(kept) = 1
             /\ \A i \in kept : missing_deps[i] = Pat(n, ">=", Max(passed))

\* ---- C10 (SpecMissing).  After any sequence of add_missing_reqdep calls
\* from an empty list, no two patterns of missing_deps have the same name.
C10_MissingNamesUnique ==
    \A i, j \in DOMAIN missing_deps :
        i # j => missing_deps[i].name # missing_deps[j].name

\* A name was passed again with a lesser version, replacing the recorded
\* pattern, while another name is recorded too
C10_Witness ==
    /\ Len(missing_deps) = 2
    /\ Len(recorded) = 3
    /\ recorded[1].name = recorded[3].name
    /\ recorded[1].op = ">=" /\ recorded[3].op = ">="
    /\ recorded[3].ver < recorded[1].ver
    /\ missing_deps[2] = recorded[3]

(***************************************************************************)
(* Resolver properties (Spec)                                              *)
(***************************************************************************)
\* The installed record that pass 1 finds by the real name of p matches p
\* and is in state unpacked
UnpackedMatch(p) ==
    LET y == xbps_find_pkg_dict_installed(p.name)
    IN /\ ~Malformed(p)
       /\ y # NoPkg
       /\ y.state = "unpacked"
       /\ xbps_pkgpattern_match(y.name, y.ver, p) = 1

\* ---- C2 (Spec).  When the pattern just processed names an installed
\* package that matches it and is unpacked, unsorted_deps holds exactly one
\* entry of that name, tagged configure, and no call of find_repo_deps was
\* made for the pattern.
C2_UnpackedConfigure ==
    (last.kind \in IterKinds /\ UnpackedMatch(last.pat))
    => LET I == {i \in DOMAIN unsorted_deps :
                    unsorted_deps[i].name = last.pat.name}
       IN /\ Cardinality(I) = 1
          /\ \A i \in I : unsorted_deps[i].transaction = "configure"
          /\ Len(stack) = last.level + 1

\* ---- C3 (Spec).  Depth is capped at 512: a call is entered with *depth
\* equal to its nesting level; no frame at nesting level 512 or more ever
\* iterates and no pattern is processed there; once a call returned ELOOP
\* every enclosing call is left with ELOOP, up to the root; a chain needing
\* 513 nested levels ends in ELOOP and one needing 512 succeeds with its 512
\* packages queued.
C3_DepthCap ==
    /\ pc = "running" =>
          /\ \A k \in DOMAIN stack : stack[k].pc # "entry" => k - 1 < 512
          /\ Top.pc = "entry" => depth = Level
    /\ last.kind \in IterKinds => last.level < 512 /\ last.depth = last.level
    /\ last.kind = "eloop" => last.level >= 512 /\ rv = ELOOP
    /\ (pc = "running" /\ rv = ELOOP) => Top.pc = "end" /\ Top.rv = ELOOP
    /\ (pc = "done" /\ root.chain = 513) => rv = ELOOP
    /\ (pc = "done" /\ root.chain = 512) => rv = 0 /\ Len(unsorted_deps) = 512

\* The chain of 513 levels has failed at the root with ELOOP
C3_Witness ==
    pc = "done" /\ rv = ELOOP /\ root.chain = 513 /\ Len(unsorted_deps) = 512

\* Pattern p is satisfied by a queued entry or by an installed record in
\* state installed, by name and version or as provider of a virtual package
ClosureSatisfied(p) ==
    \/ \E i \in DOMAIN unsorted_deps :
          \/ xbps_pkgpattern_match(unsorted_deps[i].name, unsorted_deps[i].ver, p) = 1
          \/ xbps_match_virtual_pkg_in_dict(Dict(unsorted_deps[i]), p)
    \/ \E r \in pkgdb :
          /\ r.state = "installed"
          /\ \/ xbps_pkgpattern_match(r.name, r.ver, p) = 1
             \/ xbps_match_virtual_pkg_in_dict(r, p)

\* ---- C7 (Spec).  Closure: when the resolver has returned 0 and
\* missing_deps is empty, every pattern in the run_depends of the root and
\* of every queued install or update entry is satisfied by a queued entry
\* or by an installed record in state installed.
C7_Closure ==
    (pc = "done" /\ rv = 0 /\ missing_deps = <<>>)
    => /\ root.rdeps # NoRdeps =>
             \A k \in DOMAIN root.rdeps : ClosureSatisfied(root.rdeps[k])
       /\ \A i \in DOMAIN unsorted_deps :
             LET e == unsorted_deps[i]
                 run_depends == Dict(e).rdeps
             IN (e.transaction \in {"install", "update"} /\ run_depends # NoRdeps)
                => \A k \in DOMAIN run_depends : ClosureSatisfied(run_depends[k])

\* ---- C8 (Spec).  unsorted_deps holds at most one entry per package name.
C8_OneEntryPerName ==
    Cardinality({unsorted_deps[i].name : i \in DOMAIN unsorted_deps})
        = Len(unsorted_deps)

\* ---- C9 (Spec).  No package name is both the name of a pattern in
\* missing_deps and the name of an entry in unsorted_deps.
C9_MissingQueuedDisjoint ==
    {missing_deps[i].name : i \in DOMAIN missing_deps}
        \cap {unsorted_deps[i].name : i \in DOMAIN unsorted_deps} = {}

\* The installed record pass 1 finds for the name of p, by real name, else
\* as provider of a virtual package of that name
InstalledFor(p) ==
    LET byname == xbps_find_pkg_dict_installed(p.name)
    IN IF byname # NoPkg THEN byname
       ELSE xbps_find_virtualpkg_dict_installed(p.name)

\* The frame of the running call after a step that stays in it
SameFrameNext == stack' = [stack EXCEPT ![Len(stack)].i = @ + 1,
                                        ![Len(stack)].reason = Top.reason]

\* ---- C11 (Spec).  Virtual satisfaction: when the installed record found
\* for the name of the pattern provides a virtual package matching the
\* pattern, the iteration ends as satisfied in pass 1: unsorted_deps and
\* missing_deps are left as they are, no call is made and only the
\* position in the run_depends array moves on.
C11_VirtualSatisfied ==
    [][(/\ InLoop
        /\ Reqpkg.name # NoName
        /\ InstalledFor(Reqpkg) # NoPkg
        /\ \E v \in InstalledFor(Reqpkg).provides :
              xbps_pkgpattern_match(v.name, v.ver, Reqpkg) = 1)
       => /\ unsorted_deps' = unsorted_deps
          /\ missing_deps' = missing_deps
          /\ SameFrameNext
          /\ depth' = depth
          /\ last'.kind = "satisfied" /\ last'.how = "virtual"]_vars

\* An installed package providing the virtual package at version 1 has
\* satisfied the pattern requiring it at >= 1, with a repository in the pool
\* that could have provided it too
C11_Witness ==
    /\ last.kind = "satisfied" /\ last.how = "virtual"
    /\ last.pat = Pat(VirtName, ">=", 1)
    /\ \E r \in pkgdb : [name |-> VirtName, ver |-> 1] \in r.provides
    /\ pool # <<>>
    /\ unsorted_deps = <<>> /\ missing_deps = <<>>

\* Pattern p names no installed package, names a queued package and
\* requires a version greater than that of every queued entry of its name
QueuedTooOld(p) ==
    /\ ~Malformed(p) /\ p.op = ">="
    /\ InstalledFor(p) = NoPkg
    /\ \E i \in DOMAIN unsorted_deps : unsorted_deps[i].name = p.name
    /\ \A i \in DOMAIN unsorted_deps :
          unsorted_deps[i].name = p.name => unsorted_deps[i].ver < p.ver

\* ---- C13 (Spec).  A pattern that requires a greater version than the
\* queued entry of its name has makes the iteration break with a non-zero
\* rv: no second candidate is queued and nothing is added to missing_deps.
C13_ConstraintConflict ==
    [][(InLoop /\ QueuedTooOld(Reqpkg))
       => /\ last'.kind = "abort"
          /\ stack'[Len(stack)].rv # 0
          /\ unsorted_deps' = unsorted_deps
          /\ missing_deps' = missing_deps]_vars

\* ---- C14 (Spec).  Rollback: when xbps_repository_find_pkg_deps returns a
\* non-zero result, unsorted_deps is what it was before the call, which is
\* the empty array in every run of Spec.
C14_RollbackOnError ==
    (pc = "done" /\ rv # 0) => unsorted_deps = <<>>

\* ---- C15 (Spec).  Pass 4 tags the candidate it queues by the installed
\* record of the candidate's name: install when there is none, update when
\* it is in state installed, install when it is in state unpacked.
C15_Pass4Classify ==
    last.kind = "store"
    => LET C == unsorted_deps[Len(unsorted_deps)]
           rec == xbps_find_pkg_dict_installed(C.name)
       IN /\ rec = NoPkg => C.transaction = "install"
          /\ (rec # NoPkg /\ rec.state = "installed") => C.transaction = "update"
          /\ (rec # NoPkg /\ rec.state = "unpacked") => C.transaction = "install"

\* ---- C17 (Spec).  After an iteration in which pass 3 found no candidate
\* in the pool and the loop went on, missing_deps holds a pattern with the
\* name of the pattern just processed.
C17_MissingRecorded ==
    last.kind = "missing"
    => \E i \in DOMAIN missing_deps : missing_deps[i].name = last.pat.name

\* The name of p cannot be extracted, or the installed record found for it
\* does not provide p and matching its pkgver against p reports an error
AbortsPass1(p) ==
    \/ p.name = NoName
    \/ /\ InstalledFor(p) # NoPkg
       /\ ~xbps_match_virtual_pkg_in_dict(InstalledFor(p), p)
       /\ xbps_pkgpattern_match(InstalledFor(p).name, InstalledFor(p).ver, p) = -1

\* ---- C18 (Spec).  A pattern without extractable name, or one the match
\* against the installed record reports as malformed, ends the loop of its
\* call with a non-zero rv and leaves unsorted_deps and missing_deps alone;
\* a call left with a non-zero rv hands it unchanged to its caller, which
\* is left with it too, up to xbps_repository_find_pkg_deps.
C18_MalformedAborts ==
    [][/\ (InLoop /\ AbortsPass1(Reqpkg))
          => /\ last'.kind = "abort"
             /\ Len(stack') = Len(stack)
             /\ stack'[Len(stack)].pc = "end"
             /\ stack'[Len(stack)].rv # 0
             /\ unsorted_deps' = unsorted_deps
             /\ missing_deps' = missing_deps
       /\ (pc = "running" /\ stack # <<>> /\ Top.pc = "end")
          => /\ Top.rv # 0
             /\ rv' = Top.rv
             /\ unsorted_deps' = unsorted_deps
             /\ missing_deps' = missing_deps
             /\ IF Len(stack) = 1 THEN pc' = "done"
                ELSE /\ Len(stack') = Len(stack) - 1
                     /\ stack'[Len(stack) - 1].pc = "end"
                     /\ stack'[Len(stack) - 1].rv = Top.rv]_vars

\* A pattern without name in the run_depends of a queued candidate has
\* failed the resolution of a root whose own patterns are well formed
C18_Witness ==
    /\ pc = "done" /\ rv = EINVAL
    /\ \A k \in DOMAIN root.rdeps : ~Malformed(root.rdeps[k])
    /\ unsorted_deps # <<>>
    /\ last.kind = "return" /\ last.level = 0 /\ last.rv = EINVAL

\* A queued entry matches p, as provider of a virtual package or by name
\* and version
QueuedMatch(p) ==
    \E i \in DOMAIN unsorted_deps :
        \/ xbps_pkgpattern_match(unsorted_deps[i].name, unsorted_deps[i].ver, p) = 1
        \/ xbps_match_virtual_pkg_in_dict(Dict(unsorted_deps[i]), p)

\* ---- C19 (Spec).  Existing entries win: every step leaves the entries
\* already in unsorted_deps in place and unchanged (the array only grows at
\* its end), and an iteration over a pattern that a queued entry matches
\* leaves unsorted_deps and missing_deps as they are and makes no call.
C19_ExistingEntriesWin ==
    [][/\ Len(unsorted_deps') >= Len(unsorted_deps)
       /\ \A i \in DOMAIN unsorted_deps : unsorted_deps'[i] = unsorted_deps[i]
       /\ (InLoop /\ QueuedMatch(Reqpkg))
          => /\ unsorted_deps' = unsorted_deps
             /\ missing_deps' = missing_deps
             /\ Len(stack') = Len(stack)
             /\ stack'[Len(stack)].i = Top.i + 1
             /\ depth' = depth]_vars

\* A pattern of the root was skipped in pass 2 because of the queued
\* version 2 of its name, while the first repository of the pool holds
\* version 1, which matches the pattern too
C19_Witness ==
    /\ last.kind = "queued" /\ last.level = 0
    /\ last.pat = Pat(1, ">=", 1)
    /\ unsorted_deps # <<>>
    /\ unsorted_deps[1].name = 1 /\ unsorted_deps[1].ver = 2
    /\ Len(pool) = 2 /\ pool[1] = Repo(1)

\* The iteration over p assigns reason: in pass 1 when no installed record
\* is found (line 262) or the record matches and is unpacked (line 313), in
\* pass 4 when the candidate has no installed record (line 404) or one in
\* state installed or unpacked (lines 417-422)
ReasonAssigned(p) ==
    LET tmpd == InstalledFor(p)
        virt == xbps_repository_pool_find_virtualpkg(p)
        curpkgd == IF virt # NoPkg THEN virt ELSE xbps_repository_pool_find_pkg(p)
        byname == xbps_find_pkg_dict_installed(curpkgd.name)
        tmpd4 == IF byname # NoPkg THEN byname
                 ELSE xbps_find_virtualpkg_dict_installed(curpkgd.name)
    IN \/ tmpd = NoPkg
       \/ /\ xbps_pkgpattern_match(tmpd.name, tmpd.ver, p) = 1
          /\ tmpd.state = "unpacked"
       \/ tmpd4 = NoPkg
       \/ tmpd4.state \in {"installed", "unpacked"}

\* ---- C21 (Spec).  Every entry appended to unsorted_deps carries an
\* action among install, update and configure, and the iteration that
\* appends it has assigned that action itself: it is neither the NULL the
\* call started with nor what an earlier pattern left in reason.
C21_ActionDecided ==
    [][Len(unsorted_deps') > Len(unsorted_deps)
       => /\ unsorted_deps'[Len(unsorted_deps')].transaction
                \in {"install", "update", "configure"}
          /\ ReasonAssigned(Reqpkg)]_vars

(***************************************************************************)
(* Front-end properties (SpecMain)                                         *)
(***************************************************************************)
Called(op) == {i \in DOMAIN m.calls : m.calls[i].op = op}
LockTaken == \E i \in Called("lock") : m.calls[i].arg = 0
Blocked == \E i \in Called("remove") : m.args[m.calls[i].arg] = EEXIST

\* ---- C4 (SpecMain).  When a requested removal was answered EEXIST and -F
\* was not given, the front-end exits with code EEXIST (17).
C4_RevdepsExitCode ==
    (m.pc = "exited" /\ Blocked /\ ~m.ignore_revdeps) => m.exit = EEXIST

\* ---- C5 (SpecMain).  Once xbps_pkgdb_lock has succeeded, the process does
\* not exit before xbps_pkgdb_unlock was called after it: at exit the lock
\* is not held and an unlock call follows the lock call.
C5_UnlockOnEveryExit ==
    (m.pc = "exited" /\ LockTaken)
    => /\ ~m.locked
       /\ \E i \in Called("lock") : \E j \in Called("unlock") : i < j

\* The exit for blocked removals was taken with the lock held
C5_Witness ==
    m.pc = "exited" /\ LockTaken /\ m.reqby_force /\ m.exit = EXIT_FAILURE
    /\ Called("exec") = {}

\* ---- C6 (SpecMain).  In a dry-run xbps_pkgdb_lock is never called.
C6_DryRunNoLock ==
    m.pc # "off" /\ m.drun => Called("lock") = {}

\* A dry-run with package names and -o ran to exec_transaction
C6_Witness ==
    m.pc = "exited" /\ m.drun /\ m.orphans /\ m.clean_cache
    /\ Called("exec") # {} /\ Called("remove") # {}

\* No name of the command line fails with an error other than EEXIST
NoOtherError == \A k \in DOMAIN m.args : m.args[k] \in {0, ENOENT, EEXIST}

\* ---- C12 (SpecMain).  When a submitted name was answered EEXIST, -F was
\* not given and no name fails with another error, the front-end has at
\* exit submitted every name, exits with a non-zero code and has never
\* called exec_transaction, in dry-run as in any other mode.
C12_BlockedNoExec ==
    (m.pc = "exited" /\ Blocked /\ ~m.ignore_revdeps /\ NoOtherError)
    => /\ Cardinality(Called("remove")) = Len(m.args)
       /\ m.exit # 0
       /\ Called("exec") = {}

\* ---- C20 (SpecMain).  In the loop over the names, a name answered
\* ENOENT lets the loop go on to the next name, and when every name was
\* answered 0 or ENOENT exec_transaction is called after all of them; a
\* name answered with an error other than ENOENT and EEXIST ends the
\* process at once with that error as exit code, no later name submitted
\* and exec_transaction not called.
C20_LoopErrors ==
    m.pc \in {"loop", "exec", "exited"} =>
       /\ \A c \in Called("remove") :
             LET j == m.calls[c].arg
                 a == m.args[j]
             IN /\ a = ENOENT => m.i > j
                /\ a \notin {0, ENOENT, EEXIST}
                   => /\ m.pc = "exited" /\ m.exit = a
                      /\ Called("exec") = {}
                      /\ \A d \in Called("remove") : m.calls[d].arg <= j
       /\ (/\ m.pc = "exited" /\ Called("remove") # {}
           /\ \A k \in DOMAIN m.args : m.args[k] \in {0, ENOENT})
          => /\ Cardinality(Called("remove")) = Len(m.args)
             /\ Called("exec") # {}

\* A name that is not installed was followed by a name that failed with
\* EINVAL
C20_Witness ==
    /\ m.pc = "exited" /\ m.args = <<ENOENT, EINVAL>>
    /\ Cardinality(Called("remove")) = 2
    /\ m.exit = EINVAL

\* ---- C22 (SpecMain).  xbps_pkgdb_unlock is called only while the lock
\* is held: every unlock call comes after a successful lock call with no
\* other unlock call in between, and a dry-run never calls it.
C22_UnlockOnlyWhenLocked ==
    m.pc \in {"start", "init", "clean", "lock", "orphans", "loop", "exec", "exited"}
    => /\ \A j \in Called("unlock") :
              \E i \in Called("lock") :
                  /\ i < j /\ m.calls[i].arg = 0
                  /\ \A k \in Called("unlock") : ~(i < k /\ k < j)
       /\ m.drun => Called("unlock") = {}

\* ---- C23 (SpecMain).  When the front-end exits with code 0 after it took
\* the lock, or in dry-run, every name of the command line was submitted to
\* xbps_transaction_remove_pkg, also when -o was given and
\* xbps_transaction_autoremove_pkgs answered ENOENT.
C23_AllNamesSubmitted ==
    (/\ m.pc = "exited" /\ m.exit = 0
     /\ (m.drun \/ LockTaken))
    => \A k \in DOMAIN m.args :
          \E c \in Called("remove") : m.calls[c].arg = k

(***************************************************************************)
(* Callback properties (SpecCallback)                                      *)
(***************************************************************************)
\* ---- C16 (SpecCallback).  For a file-removal failure event the callback
\* reports no error (no xbps_error_printf, nothing to syslog) when err is
\* ENOTEMPTY and reports an error for any other err; it returns 0 for
\* every event.
C16_NotEmptyIgnored ==
    m.pc = "callback" =>
       \A k \in DOMAIN m.events :
          LET e == m.events[k]
          IN /\ e.did.ret = 0
             /\ e.state \in FileFailStates =>
                   IF e.err = ENOTEMPTY
                   THEN ~e.did.error /\ e.did.syslog = "none"
                   ELSE e.did.error

\* A file-removal failure with ENOTEMPTY was followed by one with ENOENT
C16_Witness ==
    /\ m.pc = "callback" /\ Len(m.events) = 2
    /\ m.events[1].state = "REMOVE_FILE_FAIL" /\ m.events[1].err = ENOTEMPTY
    /\ m.events[2].state = "REMOVE_FILE_HASH_FAIL" /\ m.events[2].err = ENOENT
    /\ m.events[2].did.error

====
